---- MODULE Spec2Model ----
(***************************************************************************)
(* Model of the fixed-capacity LRU store of IbanEtchep/lru_cache.          *)
(*                                                                         *)
(* The repository holds two implementations of the same store:             *)
(*   - LRUCache  (src/src/lru_cache.rs), behind the Cache trait;           *)
(*   - Cache     (src/src/cache.rs), the ad hoc struct.                    *)
(* Both are modelled, operation by operation.  The state machine below is  *)
(* a caller making get / put / invalidate calls on one LRUCache (Spec);    *)
(* SpecDistinctPuts restricts the caller to puts of keys never put before, *)
(* SpecBoth makes every call on a Cache as well, and SpecGetPut makes the  *)
(* get and put calls on a reference LRU list as well.                      *)
(*                                                                         *)
(* Encoding:                                                               *)
(*   - Option<T>: None is the integer -1, Some(x) is x (slot ids, values   *)
(*     are naturals).                                                      *)
(*   - Vec<Entry>: a sequence; slot ids are the source's 0-based indices,  *)
(*     slot i being element i + 1 of the sequence.                         *)
(*   - HashMap<K, usize>: a function whose domain is the set of keys       *)
(*     present.                                                            *)
(*   - A panic (index out of bounds, unwrap of None) sets the field        *)
(*     `panic` of the store; a panicked store accepts no further call.     *)
(***************************************************************************)
EXTENDS Integers, FiniteSets, Sequences, TLC

\* ---- bounds -------------------------------------------------------------
\* the arena grows on every put of a key that is not in the index; the caller
\* makes calls until the arena holds MaxArena entries
MaxArena == 4

\* ---- inputs --------------------------------------------------------------
\* K and V are generic; the store only hashes and compares keys and never
\* looks into a value
Keys == {1, 2, 3}
Values == {1, 2}
\* the max_size given to with_capacity: 0 .. MaxCap
MaxCap == 2
Capacities == 0 .. MaxCap

\* ---- Option ---------------------------------------------------------------
None == -1

\* ---- Vec<Entry<K, V>> ---------------------------------------------------
\* entries[i] of the source (i from 0) is element i + 1 of the sequence
Len0(entries) == Len(entries)

EmptyVec == <<>>

Push(entries, e) == Append(entries, e)

Entry(key, value, prev, next) ==
    [key |-> key, value |-> value, prev |-> prev, next |-> next]

\* ---- HashMap<K, usize> --------------------------------------------------
EmptyMap == [k \in {} |-> None]

MapInsert(map, key, index) ==
    [k \in (DOMAIN map) \cup {key} |-> IF k = key THEN index ELSE map[k]]

MapRemove(map, key) ==
    [k \in (DOMAIN map) \ {key} |-> map[k]]

\* ---- arena accesses (entries[i]); out of bounds panics ------------------
InBounds(s, i) == i >= 0 /\ i < Len0(s.entries)

Panic(s) == [s EXCEPT !.panic = TRUE]

\* entries[i].prev / .next / .key / .value, read
PrevOf(s, i) == IF InBounds(s, i) THEN s.entries[i + 1].prev ELSE None
NextOf(s, i) == IF InBounds(s, i) THEN s.entries[i + 1].next ELSE None
KeyOf(s, i) == IF InBounds(s, i) THEN s.entries[i + 1].key ELSE None
ValueOf(s, i) == IF InBounds(s, i) THEN s.entries[i + 1].value ELSE None

\* a read of entries[i] as a statement: panics when out of bounds
Touch(s, i) == IF InBounds(s, i) THEN s ELSE Panic(s)

\* entries[i].prev = p / .next = n / .value = v, written
SetPrev(s, i, p) ==
    IF InBounds(s, i) THEN [s EXCEPT !.entries[i + 1].prev = p] ELSE Panic(s)
SetNext(s, i, n) ==
    IF InBounds(s, i) THEN [s EXCEPT !.entries[i + 1].next = n] ELSE Panic(s)
SetValue(s, i, v) ==
    IF InBounds(s, i) THEN [s EXCEPT !.entries[i + 1].value = v] ELSE Panic(s)

\* ==========================================================================
\* LRUCache (src/src/lru_cache.rs)
\* ==========================================================================
LRUCache_with_capacity(max_size) ==
    [entries |-> EmptyVec, map |-> EmptyMap, first |-> None, last |-> None,
     max_size |-> max_size, panic |-> FALSE]

\* _remove_last without `self.map.remove(last_key)`
_remove_last_keep_index(s) ==
    IF s.last # None
    THEN LET last_index == s.last
             s1 == Touch(s, last_index)
             s2 == [s1 EXCEPT !.last = PrevOf(s1, last_index)]
         IN  IF s2.last # None
             THEN LET new_last == s2.last
                  IN  SetNext(s2, new_last, None)
             ELSE [s2 EXCEPT !.first = None]
    ELSE s

\* _remove_last without the `if self.last.is_some()` guard: unwraps None
_remove_last_unchecked(s) ==
    LET last_index == s.last
        last_key == KeyOf(s, last_index)
        s1 == [Touch(s, last_index) EXCEPT !.map = MapRemove(s.map, last_key)]
        s2 == [s1 EXCEPT !.last = PrevOf(s1, last_index)]
    IN  IF s2.last # None
        THEN LET new_last == s2.last
             IN  SetNext(s2, new_last, None)
        ELSE [s2 EXCEPT !.first = None]

_remove_last(s) ==
    IF s.last # None
    THEN LET last_index == s.last
             last_key == KeyOf(s, last_index)
             s1 == [Touch(s, last_index) EXCEPT !.map = MapRemove(s.map, last_key)]
             s2 == [s1 EXCEPT !.last = PrevOf(s1, last_index)]
         IN  IF s2.last # None
             THEN LET new_last == s2.last
                  IN  SetNext(s2, new_last, None)
             ELSE [s2 EXCEPT !.first = None]
    ELSE s

\* _move_to_front without `if Some(index) == self.last { self.last = prev }`
_move_to_front_keep_last(s, index) ==
    IF index = s.first
    THEN s
    ELSE LET prev == PrevOf(s, index)
             next == NextOf(s, index)
             s0 == Touch(s, index)
             s1 == IF prev # None THEN SetNext(s0, prev, next) ELSE s0
             s2 == IF next # None THEN SetPrev(s1, next, prev) ELSE s1
             s4 == IF s2.first # None
                   THEN LET old_first == s2.first
                        IN  SetPrev(s2, old_first, index)
                   ELSE s2
             s5 == SetPrev(s4, index, None)
             s6 == SetNext(s5, index, s5.first)
         IN  [s6 EXCEPT !.first = index]

_move_to_front(s, index) ==
    IF index = s.first
    THEN s
    ELSE LET prev == PrevOf(s, index)
             next == NextOf(s, index)
             s0 == Touch(s, index)
             s1 == IF prev # None THEN SetNext(s0, prev, next) ELSE s0
             s2 == IF next # None THEN SetPrev(s1, next, prev) ELSE s1
             s3 == IF index = s2.last THEN [s2 EXCEPT !.last = prev] ELSE s2
             s4 == IF s3.first # None
                   THEN LET old_first == s3.first
                        IN  SetPrev(s3, old_first, index)
                   ELSE s3
             s5 == SetPrev(s4, index, None)
             s6 == SetNext(s5, index, s5.first)
         IN  [s6 EXCEPT !.first = index]

\* get written with map.entry(key).or_insert(len): a miss records the key
LRUCache_get_or_insert(s, key) ==
    IF key \in DOMAIN s.map
    THEN LET index == s.map[key]
             s1 == _move_to_front(s, index)
         IN  [store |-> Touch(s1, index), ret |-> ValueOf(s1, index)]
    ELSE [store |-> [s EXCEPT !.map = MapInsert(s.map, key, Len0(s.entries))],
          ret |-> None]

\* get without the `self._move_to_front(index)` call
LRUCache_get_no_promote(s, key) ==
    IF key \in DOMAIN s.map
    THEN LET index == s.map[key]
         IN  [store |-> Touch(s, index), ret |-> ValueOf(s, index)]
    ELSE [store |-> s, ret |-> None]

\* get returns the store after the call and the returned Option<&V>
LRUCache_get(s, key) ==
    IF key \in DOMAIN s.map
    THEN LET index == s.map[key]
             s1 == _move_to_front(s, index)
         IN  [store |-> Touch(s1, index), ret |-> ValueOf(s1, index)]
    ELSE [store |-> s, ret |-> None]

\* the new-key path of put, as in LRUCache_put below; used by its variants
PutInsert(s, key, value) ==
    LET new_entry == Entry(key, value, None, s.first)
        new_index == Len0(s.entries)
        s1 == IF Len0(s.entries) >= s.max_size THEN _remove_last(s) ELSE s
        s2 == [s1 EXCEPT !.entries = Push(s1.entries, new_entry),
                         !.map = MapInsert(s1.map, key, new_index)]
    IN  IF s2.first = None
        THEN [s2 EXCEPT !.first = new_index, !.last = new_index]
        ELSE LET old_first == s2.first
                 s3 == [s2 EXCEPT !.first = new_index]
                 s4 == SetNext(s3, new_index, old_first)
             IN  SetPrev(s4, old_first, new_index)

\* put that writes the new entry into the slot of the entry it evicts instead
\* of pushing a new slot
LRUCache_put_reuse_slot(s, key, value) ==
    IF key \in DOMAIN s.map
    THEN LET index == s.map[key]
             s1 == SetValue(s, index, value)
         IN  _move_to_front(s1, index)
    ELSE IF Len0(s.entries) >= s.max_size /\ s.last # None
         THEN LET new_index == s.last
                  s1 == _remove_last(s)
                  new_entry == Entry(key, value, None, s1.first)
                  s2 == [s1 EXCEPT !.entries[new_index + 1] = new_entry,
                                   !.map = MapInsert(s1.map, key, new_index)]
              IN  IF s2.first = None
                  THEN [s2 EXCEPT !.first = new_index, !.last = new_index]
                  ELSE LET old_first == s2.first
                           s3 == [s2 EXCEPT !.first = new_index]
                       IN  SetPrev(s3, old_first, new_index)
         ELSE PutInsert(s, key, value)

\* put whose overflow check is `self.entries.len() > self.max_size`
LRUCache_put_off_by_one(s, key, value) ==
    IF key \in DOMAIN s.map
    THEN LET index == s.map[key]
             s1 == SetValue(s, index, value)
         IN  _move_to_front(s1, index)
    ELSE LET new_entry == Entry(key, value, None, s.first)
             new_index == Len0(s.entries)
             s1 == IF Len0(s.entries) > s.max_size THEN _remove_last(s) ELSE s
             s2 == [s1 EXCEPT !.entries = Push(s1.entries, new_entry),
                              !.map = MapInsert(s1.map, key, new_index)]
         IN  IF s2.first = None
             THEN [s2 EXCEPT !.first = new_index, !.last = new_index]
             ELSE LET old_first == s2.first
                      s3 == [s2 EXCEPT !.first = new_index]
                      s4 == SetNext(s3, new_index, old_first)
                  IN  SetPrev(s4, old_first, new_index)

\* put whose existing-key branch overwrites the value but does not promote
LRUCache_put_no_promote(s, key, value) ==
    IF key \in DOMAIN s.map
    THEN LET index == s.map[key]
         IN  SetValue(s, index, value)
    ELSE PutInsert(s, key, value)

\* put whose existing-key branch lacks the `return`: it goes on to insert
LRUCache_put_no_return(s, key, value) ==
    IF key \in DOMAIN s.map
    THEN LET index == s.map[key]
             s1 == SetValue(s, index, value)
         IN  PutInsert(_move_to_front(s1, index), key, value)
    ELSE PutInsert(s, key, value)

\* put whose existing-key branch promotes but does not store the new value
LRUCache_put_keep_value(s, key, value) ==
    IF key \in DOMAIN s.map
    THEN LET index == s.map[key]
         IN  _move_to_front(s, index)
    ELSE PutInsert(s, key, value)

LRUCache_put(s, key, value) ==
    IF key \in DOMAIN s.map
    THEN LET index == s.map[key]
             s1 == SetValue(s, index, value)
         IN  _move_to_front(s1, index)
    ELSE LET new_entry == Entry(key, value, None, s.first)
             new_index == Len0(s.entries)
             s1 == IF Len0(s.entries) >= s.max_size THEN _remove_last(s) ELSE s
             s2 == [s1 EXCEPT !.entries = Push(s1.entries, new_entry),
                              !.map = MapInsert(s1.map, key, new_index)]
         IN  IF s2.first = None
             THEN [s2 EXCEPT !.first = new_index, !.last = new_index]
             ELSE LET old_first == s2.first
                      s3 == [s2 EXCEPT !.first = new_index]
                      s4 == SetNext(s3, new_index, old_first)
                  IN  SetPrev(s4, old_first, new_index)

\* invalidate without `self.map.remove(key)`
LRUCache_invalidate_keep_index(s, key) ==
    IF key \in DOMAIN s.map
    THEN LET index == s.map[key]
             prev == PrevOf(s, index)
             next == NextOf(s, index)
             s0 == Touch(s, index)
             s1 == IF index = s0.first THEN [s0 EXCEPT !.first = next] ELSE s0
             s2 == IF index = s1.last THEN [s1 EXCEPT !.last = prev] ELSE s1
             s3 == IF prev # None THEN SetNext(s2, prev, next) ELSE s2
             s4 == IF next # None THEN SetPrev(s3, next, prev) ELSE s3
         IN  SetValue(s4, index, None)
    ELSE s

\* invalidate written with self.map.remove(key).unwrap(): panics on a miss
LRUCache_invalidate_unwrap(s, key) ==
    IF key \in DOMAIN s.map
    THEN LET index == s.map[key]
             prev == PrevOf(s, index)
             next == NextOf(s, index)
             s0 == Touch(s, index)
             s1 == IF index = s0.first THEN [s0 EXCEPT !.first = next] ELSE s0
             s2 == IF index = s1.last THEN [s1 EXCEPT !.last = prev] ELSE s1
             s3 == IF prev # None THEN SetNext(s2, prev, next) ELSE s2
             s4 == IF next # None THEN SetPrev(s3, next, prev) ELSE s3
             s5 == [s4 EXCEPT !.map = MapRemove(s4.map, key)]
         IN  SetValue(s5, index, None)
    ELSE Panic(s)

\* invalidate without `if Some(index) == self.last { self.last = prev }`
LRUCache_invalidate_keep_last(s, key) ==
    IF key \in DOMAIN s.map
    THEN LET index == s.map[key]
             prev == PrevOf(s, index)
             next == NextOf(s, index)
             s0 == Touch(s, index)
             s1 == IF index = s0.first THEN [s0 EXCEPT !.first = next] ELSE s0
             s3 == IF prev # None THEN SetNext(s1, prev, next) ELSE s1
             s4 == IF next # None THEN SetPrev(s3, next, prev) ELSE s3
             s5 == [s4 EXCEPT !.map = MapRemove(s4.map, key)]
         IN  SetValue(s5, index, None)
    ELSE s

LRUCache_invalidate(s, key) ==
    IF key \in DOMAIN s.map
    THEN LET index == s.map[key]
             prev == PrevOf(s, index)
             next == NextOf(s, index)
             s0 == Touch(s, index)
             s1 == IF index = s0.first THEN [s0 EXCEPT !.first = next] ELSE s0
             s2 == IF index = s1.last THEN [s1 EXCEPT !.last = prev] ELSE s1
             s3 == IF prev # None THEN SetNext(s2, prev, next) ELSE s2
             s4 == IF next # None THEN SetPrev(s3, next, prev) ELSE s3
             s5 == [s4 EXCEPT !.map = MapRemove(s4.map, key)]
         IN  SetValue(s5, index, None)
    ELSE s

\* ==========================================================================
\* Cache (src/src/cache.rs)
\* ==========================================================================
Cache_with_capacity(max_size) ==
    [entries |-> EmptyVec, map |-> EmptyMap, first |-> None, last |-> None,
     max_size |-> max_size, panic |-> FALSE]

remove_last(s) ==
    IF s.last # None
    THEN LET last_index == s.last
             last_key == KeyOf(s, last_index)
             s1 == [Touch(s, last_index) EXCEPT !.map = MapRemove(s.map, last_key)]
             s2 == [s1 EXCEPT !.last = PrevOf(s1, last_index)]
         IN  IF s2.last # None
             THEN LET new_last == s2.last
                  IN  SetNext(s2, new_last, None)
             ELSE [s2 EXCEPT !.first = None]
    ELSE s

\* move_to_front without `self.entries[index].prev = None`
move_to_front_keep_prev(s, index) ==
    IF index = s.first
    THEN s
    ELSE LET prev == PrevOf(s, index)
             next == NextOf(s, index)
             s0 == Touch(s, index)
             s1 == IF prev # None THEN SetNext(s0, prev, next) ELSE s0
             s2 == IF next # None THEN SetPrev(s1, next, prev) ELSE s1
             s3 == IF index = s2.last THEN [s2 EXCEPT !.last = prev] ELSE s2
             s4 == IF s3.first # None
                   THEN LET old_first == s3.first
                        IN  SetPrev(s3, old_first, index)
                   ELSE s3
             s6 == SetNext(s4, index, s4.first)
         IN  [s6 EXCEPT !.first = index]

move_to_front(s, index) ==
    IF index = s.first
    THEN s
    ELSE LET prev == PrevOf(s, index)
             next == NextOf(s, index)
             s0 == Touch(s, index)
             s1 == IF prev # None THEN SetNext(s0, prev, next) ELSE s0
             s2 == IF next # None THEN SetPrev(s1, next, prev) ELSE s1
             s3 == IF index = s2.last THEN [s2 EXCEPT !.last = prev] ELSE s2
             s4 == IF s3.first # None
                   THEN LET old_first == s3.first
                        IN  SetPrev(s3, old_first, index)
                   ELSE s3
             s5 == SetPrev(s4, index, None)
             s6 == SetNext(s5, index, s5.first)
         IN  [s6 EXCEPT !.first = index]

Cache_get(s, key) ==
    IF key \in DOMAIN s.map
    THEN LET index == s.map[key]
             s1 == move_to_front(s, index)
         IN  [store |-> Touch(s1, index), ret |-> ValueOf(s1, index)]
    ELSE [store |-> s, ret |-> None]

Cache_put(s, key, value) ==
    IF key \in DOMAIN s.map
    THEN LET index == s.map[key]
             s1 == SetValue(s, index, value)
         IN  move_to_front(s1, index)
    ELSE LET new_entry == Entry(key, value, None, s.first)
             new_index == Len0(s.entries)
             s1 == IF Len0(s.entries) >= s.max_size THEN remove_last(s) ELSE s
             s2 == [s1 EXCEPT !.entries = Push(s1.entries, new_entry),
                              !.map = MapInsert(s1.map, key, new_index)]
         IN  IF s2.first = None
             THEN [s2 EXCEPT !.first = new_index, !.last = new_index]
             ELSE LET old_first == s2.first
                      s3 == [s2 EXCEPT !.first = new_index]
                      s4 == SetNext(s3, new_index, old_first)
                  IN  SetPrev(s4, old_first, new_index)

Cache_invalidate(s, key) ==
    IF key \in DOMAIN s.map
    THEN LET index == s.map[key]
             prev == PrevOf(s, index)
             next == NextOf(s, index)
             s0 == Touch(s, index)
             s1 == IF index = s0.first THEN [s0 EXCEPT !.first = next] ELSE s0
             s2 == IF index = s1.last THEN [s1 EXCEPT !.last = prev] ELSE s1
             s3 == IF prev # None THEN SetNext(s2, prev, next) ELSE s2
             s4 == IF next # None THEN SetPrev(s3, next, prev) ELSE s3
             s5 == [s4 EXCEPT !.map = MapRemove(s4.map, key)]
         IN  SetValue(s5, index, None)
    ELSE s

\* ==========================================================================
\* The state machine: a caller of one LRUCache
\* ==========================================================================
VARIABLES
    lru,    \* the LRUCache store
    cache,  \* the Cache store (driven under SpecBoth only)
    ref,    \* the reference LRU list: <<key, value>> pairs, most recently
            \* used first (driven under SpecGetPut only)
    op,     \* the last call: its name, key, value, what a get returned, and
            \* three facts of the store it was made on (see Call)
    hist    \* history: <<key, value>> of every key put and neither invalidated
            \* nor dropped from the index since, by most recent touch (put or
            \* successful get), newest first

vars == <<lru, cache, ref, op, hist>>

Live(s) == DOMAIN s.map

NLive(s) == Cardinality(Live(s))

\* a call record: hit = the key was in the index when the call was made,
\* nlive = the number of keys in the index then, head = `first` then
Call(name, key, value, ret, s) ==
    [name |-> name, key |-> key, value |-> value, ret |-> ret,
     hit |-> key \in Live(s), nlive |-> NLive(s), head |-> s.first]

\* history bookkeeping -----------------------------------------------------
HistKeys(h) == {h[i][1] : i \in 1 .. Len(h)}

HistValue(h, k) ==
    IF k \in HistKeys(h)
    THEN LET i == CHOOSE j \in 1 .. Len(h) : h[j][1] = k IN h[i][2]
    ELSE None

HistOrder(h) == [i \in 1 .. Len(h) |-> h[i][1]]

HistWithout(h, ks) == SelectSeq(h, LAMBDA e : e[1] \notin ks)

\* keys that a call removed from the index
Dropped(before, after) == Live(before) \ Live(after)

Init ==
    \E max_size \in Capacities :
        /\ lru = LRUCache_with_capacity(max_size)
        /\ op = [name |-> "with_capacity", key |-> None, value |-> None,
                 ret |-> None, hit |-> FALSE, nlive |-> 0, head |-> None]
        /\ hist = <<>>
        /\ cache = Cache_with_capacity(max_size)
        /\ ref = <<>>

\* the caller goes on: no call has panicked and the arena is below the bound
Running == ~lru.panic /\ Len0(lru.entries) < MaxArena

GetCall(key) ==
    /\ Running
    /\ LET r == LRUCache_get(lru, key)
       IN  /\ lru' = r.store
           /\ op' = Call("get", key, None, r.ret, lru)
           /\ hist' = IF r.ret # None /\ key \in HistKeys(hist)
                      THEN <<(<<key, HistValue(hist, key)>>)>> \o HistWithout(hist, {key})
                      ELSE hist

PutCall(key, value) ==
    /\ Running
    /\ lru' = LRUCache_put(lru, key, value)
    /\ op' = Call("put", key, value, None, lru)
    /\ hist' = <<(<<key, value>>)>> \o HistWithout(hist, {key} \cup Dropped(lru, lru'))

InvalidateCall(key) ==
    /\ Running
    /\ lru' = LRUCache_invalidate(lru, key)
    /\ op' = Call("invalidate", key, None, None, lru)
    /\ hist' = HistWithout(hist, {key})

\* the calls on the LRUCache alone
Get(key) == GetCall(key) /\ UNCHANGED <<cache, ref>>

Put(key, value) == PutCall(key, value) /\ UNCHANGED <<cache, ref>>

Invalidate(key) == InvalidateCall(key) /\ UNCHANGED <<cache, ref>>

Next ==
    \/ \E key \in Keys : Get(key)
    \/ \E key \in Keys, value \in Values : Put(key, value)
    \/ \E key \in Keys : Invalidate(key)

Spec == Init /\ [][Next]_vars

\* --------------------------------------------------------------------------
\* a caller that only puts keys it has not put before
ArenaKeys(s) == {KeyOf(s, i) : i \in 0 .. Len0(s.entries) - 1}

PutDistinct(key, value) ==
    /\ key \notin ArenaKeys(lru)
    /\ Put(key, value)

NextDistinctPuts == \E key \in Keys, value \in Values : PutDistinct(key, value)

SpecDistinctPuts == Init /\ [][NextDistinctPuts]_vars

\* --------------------------------------------------------------------------
\* a caller that makes every call on the LRUCache and on the Cache
RunningBoth == ~cache.panic /\ Len0(cache.entries) < MaxArena

GetBoth(key) ==
    /\ RunningBoth
    /\ GetCall(key)
    /\ cache' = Cache_get(cache, key).store
    /\ UNCHANGED ref

PutBoth(key, value) ==
    /\ RunningBoth
    /\ PutCall(key, value)
    /\ cache' = Cache_put(cache, key, value)
    /\ UNCHANGED ref

InvalidateBoth(key) ==
    /\ RunningBoth
    /\ InvalidateCall(key)
    /\ cache' = Cache_invalidate(cache, key)
    /\ UNCHANGED ref

NextBoth ==
    \/ \E key \in Keys : GetBoth(key)
    \/ \E key \in Keys, value \in Values : PutBoth(key, value)
    \/ \E key \in Keys : InvalidateBoth(key)

SpecBoth == Init /\ [][NextBoth]_vars

\* --------------------------------------------------------------------------
\* the reference LRU: a list of at most n <<key, value>> pairs, most recently
\* used first; a hit moves the pair to the front, a put inserts or moves to
\* the front, an overflow drops the back
RefKeys(r) == {r[i][1] : i \in 1 .. Len(r)}

RefOrder(r) == [i \in 1 .. Len(r) |-> r[i][1]]

RefValue(r, k) ==
    IF k \in RefKeys(r)
    THEN LET i == CHOOSE j \in 1 .. Len(r) : r[j][1] = k IN r[i][2]
    ELSE None

RefWithout(r, k) == SelectSeq(r, LAMBDA e : e[1] # k)

RefGet(r, k) ==
    IF k \in RefKeys(r)
    THEN <<(<<k, RefValue(r, k)>>)>> \o RefWithout(r, k)
    ELSE r

RefPut(r, k, v, n) ==
    IF k \in RefKeys(r)
    THEN <<(<<k, v>>)>> \o RefWithout(r, k)
    ELSE IF Len(r) >= n /\ Len(r) >= 1
         THEN <<(<<k, v>>)>> \o SubSeq(r, 1, Len(r) - 1)
         ELSE <<(<<k, v>>)>> \o r

\* a caller that makes get and put calls only, on the LRUCache and on the
\* reference list
GetRef(key) ==
    /\ GetCall(key)
    /\ ref' = RefGet(ref, key)
    /\ UNCHANGED cache

PutRef(key, value) ==
    /\ PutCall(key, value)
    /\ ref' = RefPut(ref, key, value, lru.max_size)
    /\ UNCHANGED cache

NextGetPut ==
    \/ \E key \in Keys : GetRef(key)
    \/ \E key \in Keys, value \in Values : PutRef(key, value)

SpecGetPut == Init /\ [][NextGetPut]_vars

\* ==========================================================================
\* Observations of a store
\* ==========================================================================
\* the slots met following next from first, until a link is None (at most one
\* step per arena entry)
RECURSIVE Walk(_, _, _)
Walk(s, i, fuel) ==
    IF i = None \/ fuel = 0 \/ ~InBounds(s, i)
    THEN <<>>
    ELSE <<i>> \o Walk(s, NextOf(s, i), fuel - 1)

ListSlots(s) == Walk(s, s.first, Len0(s.entries))

\* slot i is the slot the index holds for its key
LiveSlot(s, i) == InBounds(s, i) /\ KeyOf(s, i) \in Live(s) /\ s.map[KeyOf(s, i)] = i

\* the live keys in recency-list order, head first
Order(s) ==
    LET live == SelectSeq(ListSlots(s), LAMBDA i : LiveSlot(s, i))
    IN  [n \in 1 .. Len(live) |-> KeyOf(s, live[n])]

Without(seq, k) == SelectSeq(seq, LAMBDA x : x # k)

\* what get(key) would return on s
GetRet(s, key) == LRUCache_get(s, key).ret

\* the value stored for a live key
Stored(s, key) == ValueOf(s, s.map[key])

\* a call of the given name has just been made (op' is the call, the unprimed
\* variables the store it was made on)
Called(name) == op'.name = name

\* some retired slot (not the one the index holds) still stores key k
HasRetiredSlot(s, k) ==
    \E i \in 0 .. Len0(s.entries) - 1 : KeyOf(s, i) = k /\ ~LiveSlot(s, i)

\* --------------------------------------------------------------------------
\* C1: with max_size >= 1, after any sequence of get, put and invalidate the
\* number of live keys (keys in the index) is at most max_size.
C1_CapacityBound ==
    lru.max_size >= 1 => NLive(lru) <= lru.max_size

\* --------------------------------------------------------------------------
\* C2: with max_size >= 1, a put of a key that is not live, made with at least
\* max_size live keys, drops exactly one live key, the one whose latest touch
\* is the oldest; every other live key stays live.
C2_EvictsStrictLRU ==
    [][(Called("put") /\ lru.max_size >= 1 /\ op'.key \notin Live(lru)
            /\ NLive(lru) >= lru.max_size)
        => Dropped(lru, lru') = {hist[Len(hist)][1]}]_vars

\* --------------------------------------------------------------------------
\* C3: a put of a key that is not live, made with fewer than max_size live
\* keys, removes no key: every key live before is live after, with the same
\* value.
C3_NoEvictionBelowCapacity ==
    [][(Called("put") /\ op'.key \notin Live(lru) /\ NLive(lru) < lru.max_size)
        => \A k \in Live(lru) : k \in Live(lru') /\ Stored(lru', k) = Stored(lru, k)]_vars

\* --------------------------------------------------------------------------
\* C4: right after put(k, v) returns, k is live, k's slot is the head of the
\* recency list, and get(k) returns v.
C4_PutThenGet ==
    op.name = "put" =>
        /\ op.key \in Live(lru)
        /\ lru.first = lru.map[op.key]
        /\ KeyOf(lru, lru.first) = op.key
        /\ GetRet(lru, op.key) = op.value

\* a put of a new key on a store that held max_size >= 1 keys
C4_Witness ==
    /\ op.name = "put"
    /\ ~op.hit
    /\ op.nlive >= 1
    /\ op.nlive = lru.max_size
    /\ lru.first = lru.map[op.key]
    /\ GetRet(lru, op.key) = op.value

C8_GetReturnsLatestPut ==
    \A k \in Keys :
        GetRet(lru, k) # None =>
            /\ k \in HistKeys(hist)
            /\ GetRet(lru, k) = HistValue(hist, k)

\* a successful get of a key of which a retired slot still stores another value
C8_Witness ==
    /\ op.name = "get"
    /\ op.ret # None
    /\ op.ret = HistValue(hist, op.key)
    /\ \E i \in 0 .. Len0(lru.entries) - 1 :
          /\ KeyOf(lru, i) = op.key
          /\ ~LiveSlot(lru, i)
          /\ ValueOf(lru, i) \notin {None, op.ret}

\* --------------------------------------------------------------------------
\* C9: no call panics, for every capacity (0 included) and every sequence of
\* calls: every entries[i] has i < entries.len() and every unwrap is of a Some.
C9_NoPanic == ~lru.panic

\* at capacity 0, a put of a new key that evicted the only entry
C9_Witness ==
    /\ lru.max_size = 0
    /\ op.name = "put"
    /\ ~op.hit
    /\ op.nlive = 1
    /\ NLive(lru) = 1
    /\ ~lru.panic

\* --------------------------------------------------------------------------
\* C10: get(k) on a key that is not live returns not-found and changes nothing
\* in the store: arena, index, head, tail and every link are as before.
C10_GetMissNoEffect ==
    [][(Called("get") /\ op'.key \notin Live(lru))
        => op'.ret = None /\ lru' = lru]_vars

\* a missed get of a key that was live once, on a store holding other keys
C10_Witness ==
    /\ op.name = "get"
    /\ ~op.hit
    /\ op.ret = None
    /\ NLive(lru) >= 1
    /\ HasRetiredSlot(lru, op.key)

\* --------------------------------------------------------------------------
\* C11: invalidate(k) on a key that is not live changes nothing in the store,
\* and invalidate is idempotent: a second invalidate(k) made on the store a
\* first one left yields that same store.
C11_InvalidateIdempotent ==
    [][Called("invalidate")
        => /\ (op'.key \notin Live(lru) => lru' = lru)
           /\ LRUCache_invalidate(lru', op'.key) = lru']_vars

\* a missed invalidate of a key that was live once, on a store holding keys
C11_Witness ==
    /\ op.name = "invalidate"
    /\ ~op.hit
    /\ NLive(lru) >= 1
    /\ HasRetiredSlot(lru, op.key)
    /\ LRUCache_invalidate(lru, op.key) = lru

\* --------------------------------------------------------------------------
\* C12: on a store of capacity N >= 1 that only received puts of pairwise
\* distinct keys, after n puts the live keys are exactly the last min(n, N)
\* keys put, each with the value put: nothing is evicted while n <= N, put
\* N + 1 evicts the first key put, and at most N keys are retrievable.
\* (Under SpecDistinctPuts slot i holds the (i + 1)-th put.)
C12_DistinctPutsKeepLastN ==
    lru.max_size >= 1 =>
        LET n == Len0(lru.entries)
            kept == {i \in 0 .. n - 1 : i >= n - lru.max_size}
        IN  /\ Live(lru) = {KeyOf(lru, i) : i \in kept}
            /\ \A i \in kept : GetRet(lru, KeyOf(lru, i)) = ValueOf(lru, i)
            /\ \A i \in kept : ValueOf(lru, i) # None
            /\ \A i \in (0 .. n - 1) \ kept : GetRet(lru, KeyOf(lru, i)) = None
            /\ Cardinality({k \in Keys : GetRet(lru, k) # None}) <= lru.max_size

\* put N + 1 has just evicted the first key put
C12_Witness ==
    /\ lru.max_size >= 1
    /\ op.name = "put"
    /\ Len0(lru.entries) = lru.max_size + 1
    /\ op.nlive = lru.max_size
    /\ NLive(lru) = lru.max_size
    /\ KeyOf(lru, 0) \notin Live(lru)

\* --------------------------------------------------------------------------
\* the slots met following prev from last, until a link is None
RECURSIVE WalkBack(_, _, _)
WalkBack(s, i, fuel) ==
    IF i = None \/ fuel = 0 \/ ~InBounds(s, i)
    THEN <<>>
    ELSE <<i>> \o WalkBack(s, PrevOf(s, i), fuel - 1)

ListSlotsBack(s) == WalkBack(s, s.last, Len0(s.entries))

Occurrences(seq, x) == Cardinality({n \in 1 .. Len(seq) : seq[n] = x})

NoRepeat(seq) == \A x \in {seq[n] : n \in 1 .. Len(seq)} : Occurrences(seq, x) = 1

\* C13: in every reachable state the keys of the index are the keys of the
\* slots reached from head by next links, each live key's slot occurs exactly
\* once on that walk, and no slot of an evicted or invalidated key is on it.
\* (Stated for the stores of capacity max_size >= 1.)
C13_IndexEqualsList ==
    LET walk == ListSlots(lru)
    IN  lru.max_size >= 1 =>
        /\ Live(lru) = {KeyOf(lru, walk[n]) : n \in 1 .. Len(walk)}
        /\ \A k \in Live(lru) : Occurrences(walk, lru.map[k]) = 1
        /\ \A n \in 1 .. Len(walk) : LiveSlot(lru, walk[n])

\* --------------------------------------------------------------------------
\* C14: in every reachable state head is None iff tail is None, and both are
\* None iff the index holds no key.
\* (Stated for the stores of capacity max_size >= 1.)
C14_HeadTailEmpty ==
    lru.max_size >= 1 =>
    /\ (lru.first = None) <=> (lru.last = None)
    /\ (lru.first = None /\ lru.last = None) <=> (Live(lru) = {})

\* --------------------------------------------------------------------------
\* C15: in every reachable state the recency list is a well-formed doubly
\* linked list: next from head visits no slot twice and ends at tail, prev
\* from tail visits no slot twice and ends at head, head.prev and tail.next
\* are None, and x.next = y implies y.prev = x for every slot x on the list.
\* (Stated for the stores of capacity max_size >= 1.)
C15_WellFormedList ==
    LET fwd == ListSlots(lru)
        bwd == ListSlotsBack(lru)
    IN  lru.max_size >= 1 =>
        /\ NoRepeat(fwd)
        /\ NoRepeat(bwd)
        /\ IF lru.first = None
           THEN lru.last = None
           ELSE /\ lru.last # None
                /\ fwd[Len(fwd)] = lru.last
                /\ NextOf(lru, lru.last) = None
                /\ bwd[Len(bwd)] = lru.first
                /\ PrevOf(lru, lru.first) = None
        /\ \A n \in 1 .. Len(fwd) :
              NextOf(lru, fwd[n]) # None => PrevOf(lru, NextOf(lru, fwd[n])) = fwd[n]

\* --------------------------------------------------------------------------
\* C16: in every reachable state every key of the index maps to an in-bounds
\* slot that stores this key and a present value, and no two keys of the
\* index map to the same slot.
C16_IndexedSlotsPresent ==
    /\ \A k \in Live(lru) :
          /\ InBounds(lru, lru.map[k])
          /\ KeyOf(lru, lru.map[k]) = k
          /\ ValueOf(lru, lru.map[k]) # None
    /\ \A k1, k2 \in Live(lru) : lru.map[k1] = lru.map[k2] => k1 = k2

\* two live keys, one of them put again after it was invalidated (its retired
\* slot holds no value)
C16_Witness ==
    /\ NLive(lru) >= 2
    /\ \E k \in Live(lru) :
          \E i \in 0 .. Len0(lru.entries) - 1 :
              /\ KeyOf(lru, i) = k
              /\ ~LiveSlot(lru, i)
              /\ ValueOf(lru, i) = None
    /\ \A k \in Live(lru) : ValueOf(lru, lru.map[k]) # None

\* --------------------------------------------------------------------------
\* C17: with max_size = 0, the first put (on the empty store) evicts nothing
\* and leaves exactly one live entry, above the bound of zero; in a sequence
\* of puts of distinct keys every later put evicts the single previous entry,
\* so exactly one key, the last one put, is live after every put.
C17_CapacityZeroKeepsOne ==
    (lru.max_size = 0 /\ op.name = "put") =>
        LET n == Len0(lru.entries)
        IN  /\ ~lru.panic
            /\ Live(lru) = {op.key}
            /\ NLive(lru) = 1
            /\ NLive(lru) > lru.max_size
            /\ lru.map[op.key] = n - 1
            /\ op.nlive = (IF n = 1 THEN 0 ELSE 1)
            /\ \A i \in 0 .. n - 2 : GetRet(lru, KeyOf(lru, i)) = None

\* at capacity 0, a later put has just evicted the single previous entry
C17_Witness ==
    /\ lru.max_size = 0
    /\ op.name = "put"
    /\ op.nlive = 1
    /\ Len0(lru.entries) >= 2
    /\ NLive(lru) = 1
    /\ KeyOf(lru, Len0(lru.entries) - 2) \notin Live(lru)

\* --------------------------------------------------------------------------
\* C18: the arena is append-only.  Across every call its length does not
\* decrease: it grows by exactly one on a put of a key that is not live and is
\* unchanged by get, invalidate and put of a live key.  The key stored in a
\* slot never changes, a slot the index does not hold (a retired slot) is
\* never held by the index again, and a key that is live before and after the
\* call keeps the slot id the index holds for it.
C18_ArenaAppendOnly ==
    [][LET n == Len0(lru.entries)
           grows == Called("put") /\ op'.key \notin Live(lru)
       IN  /\ Len0(lru'.entries) >= n
           /\ grows => Len0(lru'.entries) = n + 1
           /\ ~grows => Len0(lru'.entries) = n
           /\ \A i \in 0 .. n - 1 :
                  /\ KeyOf(lru', i) = KeyOf(lru, i)
                  /\ ~LiveSlot(lru, i) => ~LiveSlot(lru', i)
           /\ \A k \in Live(lru) \cap Live(lru') : lru'.map[k] = lru.map[k]
      ]_vars

\* a key whose earlier slot is retired has been put again, in a fresh slot,
\* while another key stayed live
C18_Witness ==
    /\ op.name = "put"
    /\ ~op.hit
    /\ HasRetiredSlot(lru, op.key)
    /\ lru.map[op.key] = Len0(lru.entries) - 1
    /\ NLive(lru) >= 2

\* --------------------------------------------------------------------------
\* C19: Cache (cache.rs) and LRUCache (lru_cache.rs), constructed with the
\* same capacity and given the same calls, hold identical arena, index, head
\* and tail after every call, and every get returns the same result on both.
C19_ImplementationsEquivalent ==
    /\ cache.entries = lru.entries
    /\ cache.map = lru.map
    /\ cache.first = lru.first
    /\ cache.last = lru.last
    /\ cache.max_size = lru.max_size
    /\ cache.panic = lru.panic
    /\ \A k \in Keys : Cache_get(cache, k).ret = LRUCache_get(lru, k).ret

\* both stores have evicted, and the last call was a get that promoted an
\* entry from behind the head
C19_Witness ==
    /\ op.name = "get"
    /\ op.hit
    /\ op.head # lru.first
    /\ cache.first = lru.map[op.key]
    /\ NLive(cache) >= 2
    /\ \E k \in Keys : HasRetiredSlot(cache, k)

\* --------------------------------------------------------------------------
\* the slots met following next from first up to and including last
RECURSIVE WalkTo(_, _, _)
WalkTo(s, i, fuel) ==
    IF i = None \/ fuel = 0 \/ ~InBounds(s, i)
    THEN <<>>
    ELSE IF i = s.last
         THEN <<i>>
         ELSE <<i>> \o WalkTo(s, NextOf(s, i), fuel - 1)

\* the keys of the slots from head to tail
HeadToTail(s) ==
    LET walk == WalkTo(s, s.first, Len0(s.entries))
    IN  [n \in 1 .. Len(walk) |-> KeyOf(s, walk[n])]

\* C20: for max_size >= 1 and calls of get and put only, the store refines
\* the reference LRU (a recency-ordered sequence of at most max_size key/value
\* pairs: a hit moves the pair to the front, put inserts or moves to the
\* front, overflow drops the back): after every call the live keys in
\* head-to-tail order are the reference order, and every get returns what the
\* reference returns.
C20_RefinesReferenceLRU ==
    lru.max_size >= 1 =>
        /\ Len(ref) <= lru.max_size
        /\ Order(lru) = RefOrder(ref)
        /\ HeadToTail(lru) = RefOrder(ref)
        /\ Live(lru) = RefKeys(ref)
        /\ \A k \in Keys : GetRet(lru, k) = RefValue(ref, k)
        /\ op.name = "get" => op.ret = RefValue(ref, op.key)

\* a put has overflowed a store of capacity >= 2 whose recency order differs
\* from insertion order: a live key sits in an older slot than a retired one
C20_Witness ==
    /\ lru.max_size >= 2
    /\ op.name = "put"
    /\ ~op.hit
    /\ op.nlive = lru.max_size
    /\ Len(ref) = lru.max_size
    /\ ref[1][1] = op.key
    /\ \E i, j \in 0 .. Len0(lru.entries) - 1 :
           i < j /\ LiveSlot(lru, i) /\ ~LiveSlot(lru, j)

====
